---- MODULE Spec2Model ----
(***************************************************************************)
(* Model of backend/server.py: the TPRM job search pipeline                *)
(* (search_jobs_google -> relevance filter -> result store -> mailer),     *)
(* its HTTP handlers and the background scheduler thread.                  *)
(*                                                                         *)
(* Specifications: Spec (one API request, any provider answers),           *)
(* SpecSched (the scheduler thread over several days), SpecStore (a        *)
(* scheduled run, manual runs and reads filling the store), SpecRuns (a    *)
(* scheduled and a manual run side by side), SpecSearch (a search or a     *)
(* manual run served during the scheduled run) and SpecPair (two searches  *)
(* given the same provider answers).                                       *)
(*                                                                         *)
(* Strings that the code inspects (job titles) are sequences of            *)
(* one-character strings, so that .lower() and the `in` substring test are *)
(* computed as Python computes them.  Strings that the code only copies    *)
(* (keywords, links, company names, queries) are TLA+ strings.             *)
(***************************************************************************)
EXTENDS Integers, Sequences, FiniteSets, TLC

\* ------------------------------------------------------------------ bounds
\* Last tick of the model clock.
MaxTime == 9
\* Ticks in one calendar day.
DayTicks == 4
\* Tick of the day at which the job is due: at("09:00") (server.py:339).
AtTick == 1
\* Most records the store holds in SpecStore.
MaxStore == 11
\* Ticks that pass in SpecStore.
StoreTicks == 1

\* ------------------------------------------------------- program constants
\* job_results[:10], server.py:114
MaxResultsPerQuery == 10
\* base_keywords[:5], server.py:179 and technical_skills[:5], server.py:197
MaxKeywords == 5
\* .limit(10).to_list(10), server.py:422
ResultLimit == 10
\* len(search_queries), server.py:87-94
NumTemplates == 6
\* response.status == 200, server.py:107
HTTP_OK == 200
\* HTTPException(status_code=500, ...), server.py:381
HTTP_ERROR == 500
\* days_filter of the daily task and default of JobSearchRequest
DefaultDaysFilter == 7
None == "None"

\* ------------------------------------------------------------ text helpers
Min(a, b) == IF a <= b THEN a ELSE b

\* s[:n]
Take(s, n) == SubSeq(s, 1, Min(n, Len(s)))

UpperAlpha ==
    <<"A", "B", "C", "D", "E", "F", "G", "H", "I", "J", "K", "L", "M",
      "N", "O", "P", "Q", "R", "S", "T", "U", "V", "W", "X", "Y", "Z">>

LowerAlpha ==
    <<"a", "b", "c", "d", "e", "f", "g", "h", "i", "j", "k", "l", "m",
      "n", "o", "p", "q", "r", "s", "t", "u", "v", "w", "x", "y", "z">>

\* one character of str.lower()
LowerChar(c) ==
    IF \E i \in 1..Len(UpperAlpha) : UpperAlpha[i] = c
    THEN LowerAlpha[CHOOSE i \in 1..Len(UpperAlpha) : UpperAlpha[i] = c]
    ELSE c

\* str.lower()
lower(s) == [i \in 1..Len(s) |-> LowerChar(s[i])]

\* sub in s
Contains(s, sub) ==
    \E i \in 0..(Len(s) - Len(sub)) : SubSeq(s, i + 1, i + Len(sub)) = sub

\* ------------------------------------------------------------- job titles
T_SeniorRiskAnalyst ==
    <<"S", "e", "n", "i", "o", "r", " ", "R", "i", "s", "k", " ", "A", "n", "a", "l", "y", "s", "t">>

T_GraphicDesigner ==
    <<"G", "r", "a", "p", "h", "i", "c", " ", "D", "e", "s", "i", "g", "n", "e", "r">>

T_SeniorTprmManager ==
    <<"S", "E", "N", "I", "O", "R", " ", "T", "P", "R", "M", " ", "M", "a", "n", "a", "g", "e", "r">>

T_SeniorAnalyst ==
    <<"s", "e", "n", "i", "o", "r", " ", "a", "n", "a", "l", "y", "s", "t">>

T_ThirdPartyLead ==
    <<"T", "h", "i", "r", "d", " ", "P", "a", "r", "t", "y", " ", "L", "e", "a", "d">>

kw_risk == <<"r", "i", "s", "k">>

kw_compliance == <<"c", "o", "m", "p", "l", "i", "a", "n", "c", "e">>

kw_vendor == <<"v", "e", "n", "d", "o", "r">>

kw_supplier == <<"s", "u", "p", "p", "l", "i", "e", "r">>

kw_third_party == <<"t", "h", "i", "r", "d", " ", "p", "a", "r", "t", "y">>

kw_tprm == <<"t", "p", "r", "m">>

T_SeniorThirdPartyRiskAnalyst ==
    <<"S", "e", "n", "i", "o", "r", " ", "T", "h", "i", "r", "d", " ", "P", "a", "r", "t", "y", " ", "R", "i", "s", "k", " ", "A", "n", "a", "l", "y", "s", "t">>

T_VendorRiskManagerRemote ==
    <<"V", "e", "n", "d", "o", "r", " ", "R", "i", "s", "k", " ", "M", "a", "n", "a", "g", "e", "r", " ", "-", " ", "R", "e", "m", "o", "t", "e">>

w_senior == <<"s", "e", "n", "i", "o", "r">>

w_analyst == <<"a", "n", "a", "l", "y", "s", "t">>

w_manager == <<"m", "a", "n", "a", "g", "e", "r">>

\* ----------------------------------------------- keyword / skill generator
base_keywords ==
    <<"Third Party Risk Management", "Vendor Risk Assessment",
      "Supplier Risk Analysis", "Risk Mitigation", "Compliance Management">>

SeniorKeywords == <<"Senior Risk Analyst", "Risk Leadership">>

\* generate_keywords(job_title, query): the base list, extended by the
\* terms of every trigger word found in the lowered title, cut to 5.
generate_keywords(job_title, query) ==
    Take(base_keywords
            \o (IF Contains(lower(job_title), w_senior) THEN SeniorKeywords ELSE <<>>)
            \o (IF Contains(lower(job_title), w_analyst)
                THEN <<"Risk Analysis", "Data Analysis">> ELSE <<>>)
            \o (IF Contains(lower(job_title), w_manager)
                THEN <<"Risk Management", "Team Leadership">> ELSE <<>>),
         MaxKeywords)

base_technical_skills ==
    <<"GRC Tools (Archer, ServiceNow)", "Risk Assessment Frameworks",
      "SQL and Data Analysis", "Excel/Advanced Analytics",
      "Regulatory Compliance (SOX, GDPR)">>

\* generate_technical_skills(job_title, query)
generate_technical_skills(job_title, query) ==
    Take(base_technical_skills
            \o (IF Contains(lower(job_title), w_senior)
                THEN <<"Risk Modeling", "Quantitative Analysis">> ELSE <<>>)
            \o (IF Contains(lower(job_title), w_analyst)
                THEN <<"Python/R", "Business Intelligence">> ELSE <<>>),
         MaxKeywords)

\* ------------------------------------------------------------ job postings
\* JobListing (server.py:53-63) without id and scraped_at, which are fresh
\* values no operation reads.
JobListing(title, company, link, loc, kws, skills, posted, src) ==
    [job_title |-> title, company_name |-> company, job_link |-> link,
     location |-> loc, keywords |-> kws, technical_skills |-> skills,
     posted_date |-> posted, source |-> src]

\* ------------------------------------------------- search provider markup
\* One <div class="g"> result block as the parser sees it: whether it has an
\* <h3> and its text, whether it has an <a> and its href (None when the
\* attribute is missing), whether it has a <span class="st"> and what the
\* company regex captures in it (None when the regex does not match).
Block(hasH3, title, hasA, href, hasSt, company) ==
    [has_h3 |-> hasH3, h3 |-> title, has_a |-> hasA, href |-> href,
     has_st |-> hasSt, company_match |-> company]

B_senior == Block(TRUE, T_SeniorRiskAnalyst, TRUE, "https://jobs.example/1", TRUE, "Acme Corp")

B_designer == Block(TRUE, T_GraphicDesigner, TRUE, "https://jobs.example/2", TRUE, None)

B_manager == Block(TRUE, T_SeniorTprmManager, TRUE, "https://jobs.example/3", FALSE, None)

B_senior_analyst == Block(TRUE, T_SeniorAnalyst, TRUE, "https://jobs.example/4", FALSE, None)

B_no_href == Block(TRUE, T_ThirdPartyLead, TRUE, None, FALSE, None)

B_no_title == Block(FALSE, <<>>, TRUE, "https://jobs.example/5", FALSE, None)

\* What one template request yields: an exception somewhere between
\* session.get and the end of parsing, or a status and the result blocks.
Response(raises, status, blocks) ==
    [raises |-> raises, status |-> status, blocks |-> blocks]

R_exception == Response(TRUE, 0, <<>>)

\* 429 Too Many Requests: a status other than 200
R_refused == Response(FALSE, 429, <<>>)

R_two == Response(FALSE, HTTP_OK, <<B_senior, B_designer>>)

R_mixed ==
    Response(FALSE, HTTP_OK,
             <<B_designer, B_no_href, B_senior_analyst, B_no_title, B_manager>>)

R_empty == Response(FALSE, HTTP_OK, <<>>)

\* ---------------------------------------------------------- search requests
\* Search strings whose first template names the location asked for.
search_queries_with_location(query, location, days_filter) ==
    << <<"\"", query, "\" jobs in ", location, " site:linkedin.com OR site:naukri.com OR site:indeed.com">>,
       <<"\"Third Party Risk\" OR \"Vendor Risk\" OR \"Supplier Risk\" jobs Bangalore India OR remote">>,
       <<"\"TPRM\" OR \"Third Party Risk Management\" jobs Bangalore OR remote product company">>,
       <<"\"Risk Assessment\" analyst jobs Bangalore India OR remote 6 years experience">>,
       <<"\"Third Party Risk\" remote jobs India product company">>,
       <<"\"Vendor Risk Management\" remote OR Bangalore India jobs">> >>

\* search_queries of search_jobs_google (server.py:87-94) for the arguments
\* of one call.  A search string is the sequence of its literal parts and
\* interpolated values; only the first template interpolates anything, and
\* what it interpolates is the query.
search_queries(query, location, days_filter) ==
    << <<"\"", query, "\" jobs in Bangalore India OR remote site:linkedin.com OR site:naukri.com OR site:indeed.com">>,
       <<"\"Third Party Risk\" OR \"Vendor Risk\" OR \"Supplier Risk\" jobs Bangalore India OR remote">>,
       <<"\"TPRM\" OR \"Third Party Risk Management\" jobs Bangalore OR remote product company">>,
       <<"\"Risk Assessment\" analyst jobs Bangalore India OR remote 6 years experience">>,
       <<"\"Third Party Risk\" remote jobs India product company">>,
       <<"\"Vendor Risk Management\" remote OR Bangalore India jobs">> >>

\* urllib.parse.quote of a search string: each part percent-encoded.  The
\* encoding is one-to-one; an encoded part is the part under a tag.
quote(search_query) ==
    [i \in 1..Len(search_query) |-> [quoted |-> search_query[i]]]

\* google_url (server.py:100)
google_url(search_query) ==
    [base |-> "https://www.google.com/search", q |-> quote(search_query),
     tbm |-> "nws"]

\* The request session.get sends for template idx (server.py:100-106).
TemplateRequest(query, location, days_filter, idx) ==
    [template |-> idx,
     url |-> google_url(search_queries(query, location, days_filter)[idx])]

\* ------------------------------------------------------------ search fetch
\* The body of `for result in job_results[:10]` (server.py:115-150) for one
\* block: no posting when <h3> or <a> is missing; JobListing(job_link=None)
\* raises a validation error, which the inner except logs and skips.
ParseBlock(b, query) ==
    IF ~(b.has_h3 /\ b.has_a) THEN <<>>
    ELSE IF b.href = None THEN <<>>
    ELSE <<JobListing(
             b.h3,
             IF b.has_st /\ b.company_match # None
                 THEN b.company_match ELSE "Company Name Not Found",
             b.href,
             "Bangalore, India / Remote",
             generate_keywords(b.h3, query),
             generate_technical_skills(b.h3, query),
             "Recent (24 hours)",
             "google_search")>>

RECURSIVE ParseBlocks(_, _)
ParseBlocks(blocks, query) ==
    IF blocks = <<>> THEN <<>>
    ELSE ParseBlock(Head(blocks), query) \o ParseBlocks(Tail(blocks), query)

\* The postings one 200 response adds to `jobs` (server.py:108-147).
ParseResponse(r, query) == ParseBlocks(Take(r.blocks, MaxResultsPerQuery), query)

\* Whether control reaches `await asyncio.sleep(1)` (server.py:153) after
\* the request of one template: the sleep is the last statement of the
\* `if response.status == 200:` body, inside the per-template try.
SleepsAfter(r) == ~r.raises /\ r.status = HTTP_OK

\* -------------------------------------------------------- relevance filter
RelevanceKeywords ==
    <<kw_risk, kw_compliance, kw_vendor, kw_supplier, kw_third_party, kw_tprm>>

\* any(keyword in job.job_title.lower() for keyword in [...])
IsRelevant(job) ==
    \E k \in 1..Len(RelevanceKeywords) :
        Contains(lower(job.job_title), RelevanceKeywords[k])

\* A filter that removes the irrelevant postings from the list it is
\* iterating over: after a removal the loop index skips the next posting.
RECURSIVE RemoveWhileIterating(_, _)
RemoveWhileIterating(jobs, i) ==
    IF i > Len(jobs) THEN jobs
    ELSE IF IsRelevant(jobs[i]) THEN RemoveWhileIterating(jobs, i + 1)
    ELSE RemoveWhileIterating(SubSeq(jobs, 1, i - 1) \o SubSeq(jobs, i + 1, Len(jobs)),
                              i + 1)

relevant_jobs_daily_remove_in_place(jobs) == RemoveWhileIterating(jobs, 1)

\* The filter loop of daily_job_search_task (server.py:306-311).
relevant_jobs_daily(jobs) == SelectSeq(jobs, IsRelevant)

\* The filter loop of search_jobs_endpoint (server.py:365-370).
relevant_jobs_search(jobs) == SelectSeq(jobs, IsRelevant)

\* ------------------------------------------------------------ search result
\* A JobSearchResult whose count is taken from the fetched list instead of
\* the filtered one.
JobSearchResult_counts_fetched(all_jobs, relevant_jobs, query, date) ==
    [jobs |-> relevant_jobs, total_count |-> Len(all_jobs),
     search_query |-> query, search_date |-> date]

\* JobSearchResult(jobs=relevant_jobs, total_count=len(relevant_jobs), ...)
\* (server.py:314-319); all_jobs is the unfiltered list, which the
\* constructor call does not use.
JobSearchResult(all_jobs, relevant_jobs, query, date) ==
    [jobs |-> relevant_jobs, total_count |-> Len(relevant_jobs),
     search_query |-> query, search_date |-> date]

\* The body search_jobs_endpoint returns (server.py:372-377).
SearchResponseBody(all_jobs, relevant_jobs, query, date) ==
    [jobs |-> relevant_jobs, total_count |-> Len(relevant_jobs),
     search_query |-> query, search_date |-> date]

NoResult == JobSearchResult(<<>>, <<>>, None, -1)

\* insert_one(job_search_result.dict()): the stored document is the
\* result's fields plus the _id the store assigns.
Document(result, oid) ==
    [_id |-> oid, jobs |-> result.jobs, total_count |-> result.total_count,
     search_query |-> result.search_query, search_date |-> result.search_date]

\* JobSearchResult(**result) (server.py:423): the model keeps the declared
\* fields and ignores _id.
ResultOfDocument(d) ==
    [jobs |-> d.jobs, total_count |-> d.total_count,
     search_query |-> d.search_query, search_date |-> d.search_date]

\* ------------------------------------------------------------------ mailer
EMAIL_ADDRESS == "ananya4bh@gmail.com"

EMAIL_SUBJECT == "TPRM jobs for today"

\* The statements of send_email_report's try block that can raise, in
\* order: building the message and the HTML (server.py:203-277), then
\* SMTP(), starttls(), login(), sendmail(), quit() (server.py:280-285).
MailSteps == <<"compose", "connect", "starttls", "login", "sendmail", "quit">>

MailFailures == {MailSteps[i] : i \in 1..Len(MailSteps)} \cup {None}

\* The steps that completed when step `fail` raises (all when fail = None).
StepsDone(fail) ==
    IF fail = None THEN MailSteps
    ELSE SubSeq(MailSteps, 1, (CHOOSE i \in 1..Len(MailSteps) : MailSteps[i] = fail) - 1)

\* One table row per posting (server.py:251-264).
ReportRows(jobs) ==
    [i \in 1..Len(jobs) |->
        [title |-> jobs[i].job_title, company |-> jobs[i].company_name,
         link |-> jobs[i].job_link,
         keywords |-> Take(jobs[i].keywords, MaxKeywords),
         skills |-> Take(jobs[i].technical_skills, MaxKeywords)]]

\* send_email_report whose try block starts only at the SMTP connection: an
\* exception while composing the message escapes.
send_email_report_late_try(jobs, recipient_email, fail) ==
    LET done == StepsDone(fail)
        completed == Len(done) = Len(MailSteps)
    IN  [ret |-> completed,
         raised |-> IF fail = "compose" THEN "compose failed" ELSE None,
         done |-> done,
         jobs |-> jobs,
         delivered |-> \E i \in 1..Len(done) : done[i] = "sendmail",
         mail |-> [to |-> recipient_email, subject |-> EMAIL_SUBJECT,
                   count |-> Len(jobs), rows |-> ReportRows(jobs)]]

\* send_email_report(jobs, recipient_email) (server.py:199-292) when step
\* `fail` raises: the steps before it have run, `except Exception` catches
\* the exception and the function returns False; with no failure it reaches
\* `return True`.  raised is the exception that leaves the function.
send_email_report(jobs, recipient_email, fail) ==
    LET done == StepsDone(fail)
        completed == Len(done) = Len(MailSteps)
    IN  [ret |-> completed,
         raised |-> None,
         done |-> done,
         jobs |-> jobs,
         delivered |-> \E i \in 1..Len(done) : done[i] = "sendmail",
         mail |-> [to |-> recipient_email, subject |-> EMAIL_SUBJECT,
                   count |-> Len(jobs), rows |-> ReportRows(jobs)]]

NoMailCall ==
    [ret |-> FALSE, raised |-> None, done |-> <<>>, jobs |-> <<>>,
     delivered |-> FALSE,
     mail |-> [to |-> None, subject |-> None, count |-> 0, rows |-> <<>>]]

\* sample_jobs of send_test_email (server.py:388-405)
sample_jobs ==
    <<JobListing(T_SeniorThirdPartyRiskAnalyst, "Tech Corp India",
                 "https://example.com/job1", "Bangalore, India / Remote",
                 <<"Third Party Risk Management", "Vendor Risk Assessment",
                   "Compliance", "Risk Mitigation", "GRC">>,
                 <<"GRC Tools", "SQL", "Risk Frameworks", "Excel",
                   "Regulatory Compliance">>,
                 None, "briansjobsearch"),
      JobListing(T_VendorRiskManagerRemote, "Product Company Ltd",
                 "https://example.com/job2", "Remote / Bangalore, India",
                 <<"Vendor Risk", "Supplier Management", "Risk Assessment",
                   "Compliance", "Due Diligence">>,
                 <<"ServiceNow", "Risk Modeling", "Python",
                   "Business Intelligence", "SOX Compliance">>,
                 None, "briansjobsearch")>>

\* =================================================================== state
VARIABLES
    now,          \* the clock (datetime.utcnow / datetime.now), in ticks
    task,         \* per execution context: the handler or pipeline run in it
    store,        \* db.job_search_results, documents in insertion order
    outbox,       \* the mails the relay accepted (sendmail completed)
    resp,         \* per handler context: the HTTP response last returned
    spc,          \* where the scheduler thread is in schedule_daily_jobs
    next_run,     \* the schedule job's next_run
    last_run,     \* the schedule job's last_run (-1: never ran)
    schedStarts,  \* history: the times scheduled runs started
    schedEnds     \* history: when each scheduled run returned, and the
                  \* exception its except clause logged (None: none)

vars ==
    <<now, task, store, outbox, resp, spc, next_run, last_run,
      schedStarts, schedEnds>>

schedVars == <<spc, next_run, last_run, schedStarts, schedEnds>>

\* The scheduler thread and the event loop's request handlers.
Sched == "sched"

Handlers == {"h1", "h2"}

Contexts == {Sched} \cup Handlers

DailyQuery == "Third Party Risk Assessment"

Queries == {DailyQuery, "Vendor Risk"}

DailyLocation == "Bangalore India OR remote"

Locations == {DailyLocation, "Pune"}

DaysFilters == {1, DefaultDaysFilter}

\* log: the requests search_jobs_google has sent in this call, each with
\* the answer it got.  inserted: the _id insert_one gave this run's
\* document (0: no document written).
IdleTask ==
    [kind |-> "idle", pc |-> "idle", query |-> None, location |-> None,
     days_filter |-> 0, idx |-> 0, log |-> <<>>,
     jobs |-> <<>>, relevant |-> <<>>, result |-> NoResult, inserted |-> 0,
     response |-> R_empty, mail |-> NoMailCall,
     logged |-> None, raised |-> None, found |-> <<>>]

\* A handler or run that has just been entered, with the arguments it
\* passes to search_jobs_google.
NewTask(kind, query, location, days_filter) ==
    [IdleTask EXCEPT !.kind = kind, !.pc = "open", !.query = query,
                     !.location = location, !.days_filter = days_filter]

NoResponse ==
    [status |-> 0, message |-> None, detail |-> None,
     search |-> NoResult, results |-> <<>>]

OkMessage(m) == [NoResponse EXCEPT !.status = HTTP_OK, !.message = m]

\* raise HTTPException(status_code=500, detail=str(e))
ServerError(e) == [NoResponse EXCEPT !.status = HTTP_ERROR, !.detail = e]

IsDaily(kind) == kind \in {"scheduled", "trigger"}

Free(c) == task[c].pc \in {"idle", "done"}

\* A handler or run that has returned: its locals are gone; what it was
\* called with, what it logged and what it raised are kept for the record.
Returned(t) ==
    [IdleTask EXCEPT !.kind = t.kind, !.pc = "done", !.query = t.query,
                     !.location = t.location, !.days_filter = t.days_filter,
                     !.logged = t.logged, !.raised = t.raised]

\* ---------------------------------------------------------------- the clock
\* One tick passes.  A tick is hours long and the scheduler loop's
\* time.sleep(60) (server.py:343) a minute: a thread that sleeps when the
\* tick begins is at its next run_pending() before the tick is over, and a
\* run_pending() that is about to be called is called before the clock
\* moves.  A pipeline run may last any number of ticks.
Tick(limit) ==
    /\ now < limit
    /\ spc # "poll"
    /\ now' = now + 1
    /\ spc' = IF spc = "sleeping" THEN "poll" ELSE spc
    /\ UNCHANGED <<task, store, outbox, resp, next_run, last_run,
                   schedStarts, schedEnds>>

\* ------------------------------------------------------- exception handlers
\* `except Exception as e` of daily_job_search_task that raises e again
\* after logging it.
daily_task_except_reraise(e) == [logged |-> e, raised |-> e]

\* `except Exception as e: logger.error(...)` of daily_job_search_task
\* (server.py:328-329): the exception is logged and the task returns.
daily_task_except(e) == [logged |-> e, raised |-> None]

\* A daily task in which exception e was raised: control is at the task's
\* return with what the except clause left.
DailyFailed(t, e) ==
    [t EXCEPT !.pc = "return",
              !.logged = daily_task_except(e).logged,
              !.raised = daily_task_except(e).raised]

\* -------------------------------------------------------- search_jobs_google
\* Control after the request of template idx is over (and after its pause,
\* when there is one): the next template, or the end of the loop.
AfterTemplate(t) ==
    IF t.idx < NumTemplates
    THEN [t EXCEPT !.idx = t.idx + 1, !.pc = "request"]
    ELSE [t EXCEPT !.idx = t.idx + 1, !.pc = "fetched"]

\* A per-template except clause that leaves the loop: the templates after
\* the one that raised are not requested.
template_except_break(t) == [t EXCEPT !.idx = NumTemplates + 1, !.pc = "fetched"]

\* `except Exception as e: logger.error(...); continue` of the template
\* loop (server.py:155-157): on to the next template.
template_except(t) == AfterTemplate(t)

\* Entering search_jobs_google: `async with aiohttp.ClientSession()`
\* (server.py:96).  Opening the session is outside every try of the
\* function, so an exception there reaches the caller: the daily task's
\* except clause, or search_jobs_endpoint's, which answers 500.
FetchOpen(c) ==
    /\ task[c].pc = "open"
    /\ task[c].kind \in {"scheduled", "trigger", "search"}
    /\ \E ok \in BOOLEAN :
        IF ok
        THEN /\ task' = [task EXCEPT ![c] = [@ EXCEPT !.pc = "request", !.idx = 1]]
             /\ resp' = resp
        ELSE IF IsDaily(task[c].kind)
        THEN /\ task' = [task EXCEPT ![c] = DailyFailed(@, "session failed")]
             /\ resp' = resp
        ELSE /\ task' = [task EXCEPT ![c] =
                          Returned([@ EXCEPT !.logged = "session failed"])]
             /\ resp' = [resp EXCEPT ![c] = ServerError("session failed")]
    /\ UNCHANGED <<now, store, outbox, schedVars>>

\* One iteration of `for search_query in search_queries` up to the pause
\* (server.py:97-157): the request of template idx, answered by r.  On 200
\* the parsed postings are appended and control reaches the sleep; on any
\* other status, or when the request or the parsing raises, nothing is
\* appended and the loop goes on to the next template at once.
FetchRequest(c, pool) ==
    /\ task[c].pc = "request"
    /\ \E r \in pool :
        LET sent == [request |-> TemplateRequest(task[c].query, task[c].location,
                                                task[c].days_filter, task[c].idx),
                     answer |-> r]
        IN  task' = [task EXCEPT ![c] =
              IF SleepsAfter(r)
              THEN [@ EXCEPT !.jobs = @ \o ParseResponse(r, task[c].query),
                             !.log = Append(@, sent),
                             !.response = r, !.pc = "sleep"]
              ELSE IF r.raises
              THEN template_except([@ EXCEPT !.log = Append(@, sent),
                                             !.response = r])
              ELSE AfterTemplate([@ EXCEPT !.log = Append(@, sent),
                                           !.response = r])]
    /\ UNCHANGED <<now, store, outbox, resp, schedVars>>

\* `await asyncio.sleep(1)` returns (server.py:153).
FetchSleep(c) ==
    /\ task[c].pc = "sleep"
    /\ task' = [task EXCEPT ![c] = AfterTemplate(@)]
    /\ UNCHANGED <<now, store, outbox, resp, schedVars>>

\* ---------------------------------------------------- daily_job_search_task
\* search_jobs_google has returned: filter and build the JobSearchResult
\* (server.py:306-319); control is at `await db...insert_one(...)`.
DailyBuild(c) ==
    /\ task[c].pc = "fetched"
    /\ IsDaily(task[c].kind)
    /\ task' = [task EXCEPT ![c] =
                  [@ EXCEPT !.relevant = relevant_jobs_daily(task[c].jobs),
                            !.result = JobSearchResult(task[c].jobs,
                                           relevant_jobs_daily(task[c].jobs),
                                           DailyQuery, now),
                            !.pc = "insert"]]
    /\ UNCHANGED <<now, store, outbox, resp, schedVars>>

\* A write that keeps one document per search_query: the document of that
\* query is replaced when there is one (replace_one with upsert).
replace_one_upsert(docs, result) ==
    IF \E i \in 1..Len(docs) : docs[i].search_query = result.search_query
    THEN LET i == CHOOSE k \in 1..Len(docs) : docs[k].search_query = result.search_query
         IN  [docs EXCEPT ![i] = Document(result, docs[i]._id)]
    ELSE Append(docs, Document(result, Len(docs) + 1))

\* db.job_search_results.insert_one(job_search_result.dict()) (server.py:321):
\* the collection with the new document added.
insert_one(docs, result) == Append(docs, Document(result, Len(docs) + 1))

\* insert_one completes (server.py:321), or raises into the task's except.
DailyInsert(c) ==
    /\ task[c].pc = "insert"
    /\ \E ok \in BOOLEAN :
        IF ok
        THEN /\ store' = insert_one(store, task[c].result)
             /\ task' = [task EXCEPT ![c] =
                           [@ EXCEPT !.pc = "mail", !.inserted = Len(store')]]
        ELSE /\ store' = store
             /\ task' = [task EXCEPT ![c] = DailyFailed(@, "insert failed")]
    /\ UNCHANGED <<now, outbox, resp, schedVars>>

\* A report of everything that was fetched.
report_jobs_all_fetched(t) == t.jobs

\* The list the daily task hands to the mailer: relevant_jobs (server.py:324).
report_jobs(t) == t.relevant

\* `await send_email_report(relevant_jobs, EMAIL_ADDRESS)` (server.py:324);
\* its return value is not used.  smtplib blocks, so the call is one step.
DailyMail(c, failures) ==
    /\ task[c].pc = "mail"
    /\ \E fail \in failures :
        LET m == send_email_report(report_jobs(task[c]), EMAIL_ADDRESS, fail)
        IN  /\ outbox' = IF m.delivered THEN Append(outbox, m.mail) ELSE outbox
            /\ task' = [task EXCEPT ![c] =
                  IF m.raised # None
                  THEN DailyFailed([@ EXCEPT !.mail = m], m.raised)
                  ELSE [@ EXCEPT !.mail = m, !.pc = "return"]]
    /\ UNCHANGED <<now, store, resp, schedVars>>

\* ------------------------------------------------------------ HTTP handlers
\* POST /search-jobs is received (server.py:355-363).
SearchStart(h, query, location, days_filter) ==
    /\ Free(h)
    /\ task' = [task EXCEPT ![h] = NewTask("search", query, location, days_filter)]
    /\ resp' = [resp EXCEPT ![h] = NoResponse]
    /\ UNCHANGED <<now, store, outbox, schedVars>>

\* A search endpoint that also keeps what it found in the collection.
SearchRespond_persisting(h) ==
    /\ task[h].pc = "fetched"
    /\ task[h].kind = "search"
    /\ task' = [task EXCEPT ![h] = Returned(@)]
    /\ resp' = [resp EXCEPT ![h] =
                  [NoResponse EXCEPT
                      !.status = HTTP_OK,
                      !.search = SearchResponseBody(task[h].jobs,
                                     relevant_jobs_search(task[h].jobs),
                                     task[h].query, now)]]
    /\ store' = insert_one(store, SearchResponseBody(task[h].jobs,
                                      relevant_jobs_search(task[h].jobs),
                                      task[h].query, now))
    /\ UNCHANGED <<now, outbox, schedVars>>

\* search_jobs_endpoint after the fetch: filter and answer (server.py:365-377).
SearchRespond(h) ==
    /\ task[h].pc = "fetched"
    /\ task[h].kind = "search"
    /\ task' = [task EXCEPT ![h] = Returned(@)]
    /\ resp' = [resp EXCEPT ![h] =
                  [NoResponse EXCEPT
                      !.status = HTTP_OK,
                      !.search = SearchResponseBody(task[h].jobs,
                                     relevant_jobs_search(task[h].jobs),
                                     task[h].query, now)]]
    /\ UNCHANGED <<now, store, outbox, schedVars>>

\* POST /trigger-manual-search is received (server.py:428-432).
TriggerStart(h) ==
    /\ Free(h)
    /\ task' = [task EXCEPT ![h] = NewTask("trigger", DailyQuery, DailyLocation, DefaultDaysFilter)]
    /\ resp' = [resp EXCEPT ![h] = NoResponse]
    /\ UNCHANGED <<now, store, outbox, schedVars>>

\* trigger_manual_search after `await daily_job_search_task()`
\* (server.py:432-436): the message when the task returned, 500 with the
\* exception text when the task raised.
trigger_manual_search_response(t) ==
    IF t.raised # None
    THEN ServerError(t.raised)
    ELSE OkMessage("Manual job search completed successfully")

TriggerRespond(h) ==
    /\ task[h].pc = "return"
    /\ task[h].kind = "trigger"
    /\ task' = [task EXCEPT ![h] = Returned(@)]
    /\ resp' = [resp EXCEPT ![h] = trigger_manual_search_response(task[h])]
    /\ UNCHANGED <<now, store, outbox, schedVars>>

\* POST /send-test-email (server.py:383-416).  A False from the mailer
\* raises HTTPException inside the try, which `except Exception` catches
\* and raises again as a 500 whose detail is the text of the first.
SendTestEmail(h, failures) ==
    /\ Free(h)
    /\ \E fail \in failures :
        LET m == send_email_report(sample_jobs, EMAIL_ADDRESS, fail)
        IN  /\ outbox' = IF m.delivered THEN Append(outbox, m.mail) ELSE outbox
            /\ task' = [task EXCEPT ![h] =
                  [IdleTask EXCEPT !.kind = "testmail", !.pc = "done", !.mail = m,
                                   !.logged = IF m.raised # None THEN m.raised
                                              ELSE IF m.ret THEN None
                                              ELSE "Failed to send test email"]]
            /\ resp' = [resp EXCEPT ![h] =
                  IF m.raised # None THEN ServerError(m.raised)
                  ELSE IF m.ret THEN OkMessage("Test email sent successfully")
                  ELSE ServerError("Failed to send test email")]
    /\ UNCHANGED <<now, store, schedVars>>

\* ----------------------------------------------------------- GET /job-results
\* d placed in a list sorted by search_date descending, after the documents
\* that are not older than it.  The store does not say in which order it
\* returns documents of equal search_date; insertion order is taken here.
RECURSIVE InsertByDateDesc(_, _)
InsertByDateDesc(sorted, d) ==
    IF sorted = <<>> THEN <<d>>
    ELSE IF Head(sorted).search_date >= d.search_date
         THEN <<Head(sorted)>> \o InsertByDateDesc(Tail(sorted), d)
         ELSE <<d>> \o sorted

\* .sort("search_date", -1)
RECURSIVE SortByDateDesc(_)
SortByDateDesc(docs) ==
    IF docs = <<>> THEN <<>>
    ELSE InsertByDateDesc(SortByDateDesc(SubSeq(docs, 1, Len(docs) - 1)),
                          docs[Len(docs)])

\* find() without the sort: the documents in insertion order.
get_job_results_unsorted(docs) ==
    LET found == Take(docs, ResultLimit)
    IN  [i \in 1..Len(found) |-> ResultOfDocument(found[i])]

\* find().sort("search_date", -1).limit(10).to_list(10), each document
\* turned into a JobSearchResult (server.py:422-423).
get_job_results_body(docs) ==
    LET found == Take(SortByDateDesc(docs), ResultLimit)
    IN  [i \in 1..Len(found) |-> ResultOfDocument(found[i])]

\* GET /job-results (server.py:418-426): the list, or 500 when the read
\* raises.  found keeps the documents the collection held when it was read.
GetJobResults(h) ==
    /\ Free(h)
    /\ \E ok \in BOOLEAN :
        /\ task' = [task EXCEPT ![h] =
              [IdleTask EXCEPT !.kind = "results", !.pc = "done",
                               !.logged = IF ok THEN None ELSE "find failed",
                               !.found = IF ok THEN store ELSE <<>>]]
        /\ resp' = [resp EXCEPT ![h] =
              IF ok
              THEN [NoResponse EXCEPT !.status = HTTP_OK,
                                      !.results = get_job_results_body(store)]
              ELSE ServerError("find failed")]
    /\ UNCHANGED <<now, store, outbox, schedVars>>

\* ------------------------------------------------------------ the scheduler
DayOf(t) == t \div DayTicks

\* The at-time of the day of t when that instant is not before t, else the
\* next day's: a next_run that may equal the time it is computed at.
NextAt_not_before(t) ==
    LET today == DayOf(t) * DayTicks + AtTick
    IN  IF today >= t THEN today ELSE today + DayTicks

\* The job's next_run as computed at time t by every().day.at("09:00"):
\* the first 09:00 strictly after t (server.py:339; the schedule job
\* computes it when it is created and again each time job_func has returned).
NextAt(t) ==
    LET today == DayOf(t) * DayTicks + AtTick
    IN  IF today > t THEN today ELSE today + DayTicks

\* A job that keeps its daily grid: next_run advanced by one day from the
\* trigger that fired, whatever the time the run returned.
RescheduleAfter_keep_grid(t, due) == due + DayTicks

\* next_run after a run that was due at `due` returns at time t: computed
\* from the return time alone (server.py:342, run_pending -> job.run).
RescheduleAfter(t, due) == NextAt(t)

\* schedule.run_pending() (server.py:342) when the job is due: job_wrapper
\* starts the pipeline with asyncio.run (server.py:336-337), which returns
\* only when the task has; the thread is inside the run until then.
SchedTrigger ==
    /\ spc = "poll"
    /\ now >= next_run
    /\ spc' = "running"
    /\ task' = [task EXCEPT ![Sched] = NewTask("scheduled", DailyQuery, DailyLocation, DefaultDaysFilter)]
    /\ schedStarts' = Append(schedStarts, now)
    /\ UNCHANGED <<now, store, outbox, resp, next_run, last_run, schedEnds>>

\* schedule.run_pending() when the job is not due, then time.sleep(60)
\* (server.py:342-343).
SchedIdle ==
    /\ spc = "poll"
    /\ now < next_run
    /\ spc' = "sleeping"
    /\ UNCHANGED <<now, task, store, outbox, resp, next_run, last_run,
                   schedStarts, schedEnds>>

\* time.sleep(60) returns; a minute is below the clock's resolution.
SchedWake ==
    /\ spc = "sleeping"
    /\ spc' = "poll"
    /\ UNCHANGED <<now, task, store, outbox, resp, next_run, last_run,
                   schedStarts, schedEnds>>

\* The pipeline task returns to job_wrapper.  When it returned normally the
\* job records last_run, computes next_run, and run_pending returns to the
\* loop's sleep.  When it raised, the exception leaves job_wrapper,
\* run_pending and schedule_daily_jobs: the thread ends.
SchedJobReturn ==
    /\ spc = "running"
    /\ task[Sched].pc = "return"
    /\ task' = [task EXCEPT ![Sched] = Returned(@)]
    /\ schedEnds' = Append(schedEnds, [at |-> now, logged |-> task[Sched].logged])
    /\ IF task[Sched].raised # None
       THEN /\ spc' = "dead"
            /\ UNCHANGED <<next_run, last_run>>
       ELSE /\ spc' = "sleeping"
            /\ last_run' = now
            /\ next_run' = RescheduleAfter(now, next_run)
    /\ UNCHANGED <<now, store, outbox, resp, schedStarts>>

\* ============================================================ specifications
\* The state at application start, at time t0: empty store, no request in
\* progress, the scheduler thread about to poll with the job created.
InitAt(t0) ==
    /\ now = t0
    /\ task = [c \in Contexts |-> IdleTask]
    /\ store = <<>>
    /\ outbox = <<>>
    /\ resp = [h \in Handlers |-> NoResponse]
    /\ spc = "poll"
    /\ next_run = NextAt(t0)
    /\ last_run = -1
    /\ schedStarts = <<>>
    /\ schedEnds = <<>>

\* ---- Spec: one API request served from the start state, any provider answers
ProviderAnswers == {R_exception, R_refused, R_two, R_mixed}

Init == InitAt(0)

H == "h1"

Fresh(h) == task[h].pc = "idle"

ReqSearch ==
    \E q \in Queries, loc \in Locations, days \in DaysFilters :
        Fresh(H) /\ SearchStart(H, q, loc, days)

ReqTrigger == Fresh(H) /\ TriggerStart(H)

ReqTestEmail == Fresh(H) /\ SendTestEmail(H, MailFailures)

ReqResults == Fresh(H) /\ GetJobResults(H)

StepOpen == FetchOpen(H)

StepRequest == FetchRequest(H, ProviderAnswers)

StepSleep == FetchSleep(H)

StepBuild == DailyBuild(H)

StepInsert == DailyInsert(H)

StepMail == DailyMail(H, MailFailures)

StepSearchRespond == SearchRespond(H)

StepTriggerRespond == TriggerRespond(H)

Next ==
    \/ ReqSearch
    \/ ReqTrigger
    \/ ReqTestEmail
    \/ ReqResults
    \/ StepOpen
    \/ StepRequest
    \/ StepSleep
    \/ StepBuild
    \/ StepInsert
    \/ StepMail
    \/ StepSearchRespond
    \/ StepTriggerRespond

Spec == Init /\ [][Next]_vars

\* ---- SpecSched: the scheduler thread over three days, runs of any duration
SchedAnswers == {R_exception, R_empty}

SchedMailFailures == {None, "login"}

InitSched == \E t0 \in 0..(DayTicks - 1) : InitAt(t0)

ClockTick == Tick(MaxTime)

SchedOpen == FetchOpen(Sched)

SchedRequest == FetchRequest(Sched, SchedAnswers)

SchedSleep == FetchSleep(Sched)

SchedBuild == DailyBuild(Sched)

SchedInsert == DailyInsert(Sched)

SchedMail == DailyMail(Sched, SchedMailFailures)

NextSched ==
    \/ ClockTick
    \/ SchedTrigger
    \/ SchedIdle
    \/ SchedWake
    \/ SchedJobReturn
    \/ SchedOpen
    \/ SchedRequest
    \/ SchedSleep
    \/ SchedBuild
    \/ SchedInsert
    \/ SchedMail

SpecSched == InitSched /\ [][NextSched]_vars

\* C4: no two scheduled runs start on the same calendar day, at most one
\* scheduled run is in progress, and the loop is never at its due-time
\* check while a scheduled run is in progress.
OncePerDayAndBlocking ==
    /\ \A i, j \in 1..Len(schedStarts) :
          i < j => DayOf(schedStarts[i]) # DayOf(schedStarts[j])
    /\ Len(schedStarts) - Len(schedEnds) \in {0, 1}
    /\ (Len(schedStarts) > Len(schedEnds)) = (spc = "running")
    /\ spc \in {"poll", "sleeping"} => task[Sched].pc \in {"idle", "done"}

\* C4 witness: a run started and returned on the same day, the loop polled
\* again that day, and the next run started on the following day.
OncePerDayWitness ==
    /\ Len(schedStarts) = 2
    /\ Len(schedEnds) >= 1
    /\ DayOf(schedEnds[1].at) = DayOf(schedStarts[1])
    /\ schedEnds[1].at > schedStarts[1]
    /\ DayOf(schedStarts[2]) = DayOf(schedStarts[1]) + 1

\* Whether a trigger came due while scheduled run k was in progress.
TriggerMissedDuring(k) == NextAt(schedStarts[k]) <= schedEnds[k].at

\* C5 (as claimed): when a trigger came due during a run, the trigger is
\* still pending when that run has returned, so that the resumed loop
\* starts a run for it at its next check.
MissedTriggerDeferred ==
    \A k \in 1..Len(schedEnds) :
        (TriggerMissedDuring(k) /\ Len(schedStarts) = k /\ spc # "dead")
            => next_run <= schedEnds[k].at

\* C5 (amended): a trigger that came due during a run is dropped.  After
\* every run the job is due again only at the first 09:00 strictly after
\* the time the run returned, and the next run starts no earlier.
MissedTriggerDropped ==
    \A k \in 1..Len(schedEnds) :
        /\ (Len(schedStarts) = k /\ spc # "dead")
              => next_run = NextAt(schedEnds[k].at)
        /\ Len(schedStarts) > k
              => schedStarts[k + 1] >= NextAt(schedEnds[k].at)

\* C5 witness: a trigger came due during the first run, no run started
\* before the following trigger, and the second run started then.
MissedTriggerWitness ==
    /\ Len(schedStarts) = 2
    /\ TriggerMissedDuring(1)
    /\ schedStarts[2] = NextAt(schedEnds[1].at)
    /\ schedStarts[2] >= NextAt(NextAt(schedStarts[1]))

\* C6: the scheduler thread never ends because of a pipeline failure: no
\* exception leaves the task, and after every run, failed or not, the
\* loop is polling again with the job rescheduled.
SchedulerSurvives ==
    /\ spc # "dead"
    /\ task[Sched].raised = None
    /\ \A k \in 1..Len(schedEnds) :
          Len(schedStarts) = k => (spc \in {"poll", "sleeping"} /\ next_run > last_run)

\* C6 witness: the store write of the first scheduled run raised, and a
\* later trigger started a second run.
SchedulerSurvivesWitness ==
    /\ Len(schedStarts) = 2
    /\ schedEnds[1].logged = "insert failed"
    /\ spc = "running"


\* ---- SpecStore: the hours from a trigger on: the scheduled run, manual
\* ---- runs and reads of the results on one handler
StoreAnswers == {R_refused}

StoreMailFailures == {"login"}

StoreContexts == {Sched, H}

\* The application has been up since before 09:00 and nothing has happened;
\* it is 09:00 and the scheduler thread is about to poll.
InitStore ==
    /\ now = AtTick
    /\ task = [c \in Contexts |-> IdleTask]
    /\ store = <<>>
    /\ outbox = <<>>
    /\ resp = [h \in Handlers |-> NoResponse]
    /\ spc = "poll"
    /\ next_run = AtTick
    /\ last_run = -1
    /\ schedStarts = <<>>
    /\ schedEnds = <<>>

\* Documents the store holds or is about to be offered.
Pending ==
    Len(store) + Cardinality({c \in StoreContexts :
                                 IsDaily(task[c].kind) /\ ~Free(c)})

StoreTick == Tick(AtTick + StoreTicks)

StoreTrigger == Pending < MaxStore /\ TriggerStart(H)

StoreRead == GetJobResults(H)

StoreOpen == \E c \in StoreContexts : FetchOpen(c)

StoreRequest == \E c \in StoreContexts : FetchRequest(c, StoreAnswers)

StoreBuild == \E c \in StoreContexts : DailyBuild(c)

StoreInsert == \E c \in StoreContexts : DailyInsert(c)

StoreMail == \E c \in StoreContexts : DailyMail(c, StoreMailFailures)

StoreRespond == TriggerRespond(H)

NextStore ==
    \/ StoreTick
    \/ SchedTrigger
    \/ SchedIdle
    \/ SchedJobReturn
    \/ StoreTrigger
    \/ StoreRead
    \/ StoreOpen
    \/ StoreRequest
    \/ StoreBuild
    \/ StoreInsert
    \/ StoreMail
    \/ StoreRespond

SpecStore == InitStore /\ [][NextStore]_vars

Count(seq, x) == Cardinality({i \in 1..Len(seq) : seq[i] = x})

Results(docs) == [i \in 1..Len(docs) |-> ResultOfDocument(docs[i])]

\* C8: a successful GET /job-results over a store of n documents returns
\* min(n, 10) of its records, newest first, and no record it leaves out is
\* newer than one it returns; over an empty store it returns the empty
\* list with status 200.
RecentResultsReturned ==
    \A h \in Handlers :
        (task[h].kind = "results" /\ task[h].logged = None) =>
            LET docs == Results(task[h].found)
                out  == resp[h].results
            IN  /\ resp[h].status = HTTP_OK
                /\ Len(out) = Min(Len(docs), ResultLimit)
                /\ \A i, j \in 1..Len(out) :
                      i < j => out[i].search_date >= out[j].search_date
                /\ \A i \in 1..Len(out) : Count(out, out[i]) <= Count(docs, out[i])
                /\ \A i \in 1..Len(docs) :
                      (Len(out) > 0 /\ docs[i].search_date > out[Len(out)].search_date)
                          => Count(out, docs[i]) = Count(docs, docs[i])

\* C8 witness: a read of a store of more than 10 documents whose insertion
\* order is neither oldest first nor newest first; the 10 records returned
\* are not all of one date.
RecentResultsWitness ==
    LET docs == task[H].found
    IN  /\ task[H].kind = "results"
        /\ Len(docs) > ResultLimit
        /\ Len(resp[H].results) = ResultLimit
        /\ \E i, j \in 1..Len(docs) : i < j /\ docs[i].search_date > docs[j].search_date
        /\ \E i, j \in 1..Len(docs) : i < j /\ docs[i].search_date < docs[j].search_date
        /\ resp[H].results[1].search_date > resp[H].results[ResultLimit].search_date


\* Whether context c's step is a store write that completed.
WroteDocument(c) ==
    /\ IsDaily(task[c].kind)
    /\ task[c].pc = "insert"
    /\ task'[c].pc = "mail"

\* C13: every step leaves the documents already stored as they are, in
\* place; a step adds a document exactly when it is the completed store
\* write of one run, and then it adds one, built from that run's result;
\* a run writes at most once: the run that writes has not written before,
\* and what a run has written is its document until the run returns.
StoreAppendOnlyOnePerRun ==
    [][/\ Len(store') >= Len(store)
       /\ SubSeq(store', 1, Len(store)) = store
       /\ Len(store') <= Len(store) + 1
       /\ \A c \in Contexts :
             WroteDocument(c) =>
                 /\ Len(store') = Len(store) + 1
                 /\ ResultOfDocument(store'[Len(store')]) = task[c].result
                 /\ task[c].inserted = 0
                 /\ task'[c].inserted = Len(store')
       /\ Len(store') > Len(store) =>
             Cardinality({c \in Contexts : WroteDocument(c)}) = 1
       /\ \A c \in Contexts :
             (task[c].inserted # 0 /\ task'[c].pc # "done") =>
                 /\ task'[c].inserted = task[c].inserted
                 /\ ResultOfDocument(store'[task[c].inserted]) = task[c].result
      ]_vars

\* C13 witness: the scheduled run wrote its document between the documents
\* of two manual runs and has not returned; a read then found the three.
StoreAppendOnlyWitness ==
    /\ task[Sched].pc = "mail"
    /\ task[Sched].inserted = 2
    /\ task[H].kind = "results"
    /\ Len(task[H].found) = 3
    /\ store = task[H].found
    /\ store[3].search_date > store[2].search_date

\* ---- SpecRuns: a scheduled run and a manually triggered run in progress
\* ---- at the same time
\* ---- (the provider refuses some requests of the scheduled run and answers
\* ---- the others with one page, and answers the manual run's with another)
RunsAnswers(c) == IF c = Sched THEN {R_refused, R_two} ELSE {R_mixed}

RunsMailFailures == {None, "login"}

RunsTrigger == Fresh(H) /\ TriggerStart(H)

RunsOpen == \E c \in StoreContexts : FetchOpen(c)

RunsRequest == \E c \in StoreContexts : FetchRequest(c, RunsAnswers(c))

RunsSleep == \E c \in StoreContexts : FetchSleep(c)

RunsBuild == \E c \in StoreContexts : DailyBuild(c)

RunsInsert == \E c \in StoreContexts : DailyInsert(c)

RunsMail == \E c \in StoreContexts : DailyMail(c, RunsMailFailures)

RunsRespond == TriggerRespond(H)

NextRuns ==
    \/ SchedTrigger
    \/ SchedJobReturn
    \/ RunsTrigger
    \/ RunsOpen
    \/ RunsRequest
    \/ RunsSleep
    \/ RunsBuild
    \/ RunsInsert
    \/ RunsMail
    \/ RunsRespond

SpecRuns == InitStore /\ [][NextRuns]_vars

\* C12: in every run of the daily task, scheduled or triggered, the list
\* is filtered only when the fetch has returned, the document is written
\* only from the filtered result, and the mailer is called only when the
\* run's document is in the store, with the jobs list of that document; a
\* run whose store write raised calls no mailer.  Every mail the relay
\* accepted reports the jobs of a stored document.
FetchFilterStoreMail ==
    /\ \A c \in Contexts :
          LET t == task[c]
          IN  IsDaily(t.kind) =>
                /\ t.result # NoResult =>
                      /\ Len(t.log) = NumTemplates
                      /\ t.result.jobs = relevant_jobs_daily(t.jobs)
                /\ t.pc \in {"insert", "mail"} => t.result # NoResult
                /\ t.inserted # 0 =>
                      /\ t.inserted \in 1..Len(store)
                      /\ ResultOfDocument(store[t.inserted]) = t.result
                /\ t.pc = "mail" => t.inserted # 0
                /\ t.mail # NoMailCall =>
                      /\ t.inserted \in 1..Len(store)
                      /\ t.mail.jobs = store[t.inserted].jobs
                /\ t.logged = "insert failed" =>
                      (t.inserted = 0 /\ t.mail = NoMailCall)
    /\ \A i \in 1..Len(outbox) :
          \E k \in 1..Len(store) : outbox[i].rows = ReportRows(store[k].jobs)

\* C12 witness: the scheduled run wrote the second document of the store,
\* whose jobs differ from the first's and are fewer than the run fetched,
\* and its mail was accepted.
FetchFilterStoreMailWitness ==
    /\ task[Sched].pc = "return"
    /\ task[Sched].inserted = 2
    /\ task[Sched].mail.delivered
    /\ store[1].jobs # store[2].jobs
    /\ Len(store[2].jobs) > 0
    /\ Len(store[2].jobs) < Len(task[Sched].jobs)

\* ---- SpecSearch: the scheduled run in progress while one request, a
\* ---- search or a manual trigger, is served
SearchAnswers(c) ==
    IF task[c].kind = "search" THEN {R_exception, R_two} ELSE {R_refused}

SearchMailFailures == {None, "login"}

AnySearch ==
    \E q \in Queries, loc \in Locations, days \in DaysFilters :
        Fresh(H) /\ SearchStart(H, q, loc, days)

AnyTrigger == Fresh(H) /\ TriggerStart(H)

AnyOpen == \E c \in StoreContexts : FetchOpen(c)

AnyRequest == \E c \in StoreContexts : FetchRequest(c, SearchAnswers(c))

AnySleep == \E c \in StoreContexts : FetchSleep(c)

AnyBuild == \E c \in StoreContexts : DailyBuild(c)

AnyInsert == \E c \in StoreContexts : DailyInsert(c)

AnyMail == \E c \in StoreContexts : DailyMail(c, SearchMailFailures)

AnySearchRespond == SearchRespond(H)

AnyTriggerRespond == TriggerRespond(H)

NextSearch ==
    \/ SchedTrigger
    \/ SchedJobReturn
    \/ AnySearch
    \/ AnyTrigger
    \/ AnyOpen
    \/ AnyRequest
    \/ AnySleep
    \/ AnyBuild
    \/ AnyInsert
    \/ AnyMail
    \/ AnySearchRespond
    \/ AnyTriggerRespond

SpecSearch == InitStore /\ [][NextSearch]_vars

\* C14: no step of a POST /search-jobs request, from its arrival to its
\* answer, changes the store or the mails sent, and the request neither
\* writes a document nor calls the mailer; every step that changes the
\* store is the store write of a scheduled or manually triggered run.
SearchJobsHasNoEffect ==
    [][/\ \A h \in Handlers :
             (task'[h].kind = "search" /\ task'[h] # task[h]) =>
                 /\ store' = store
                 /\ outbox' = outbox
                 /\ task'[h].inserted = 0
                 /\ task'[h].mail = NoMailCall
       /\ store' # store =>
             \E c \in Contexts :
                 WroteDocument(c) /\ task[c].kind \in {"scheduled", "trigger"}
      ]_vars

\* C14 witness: a search that found relevant postings has been answered
\* while the scheduled run, whose document is the only one in the store,
\* is at its mail step.
SearchJobsNoEffectWitness ==
    /\ task[H].kind = "search"
    /\ task[H].pc = "done"
    /\ resp[H].status = HTTP_OK
    /\ resp[H].search.total_count > 0
    /\ task[Sched].pc = "mail"
    /\ Len(store) = 1
    /\ outbox = <<>>

\* ---- SpecPair: two POST /search-jobs requests with the same query, the
\* ---- provider answering the k-th request of the second as it answered
\* ---- the k-th request of the first
PairAnswers == {R_refused, R_mixed}

First == "h1"

Second == "h2"

PairFirst ==
    \E q \in Queries, loc \in Locations, days \in DaysFilters :
        Fresh(First) /\ SearchStart(First, q, loc, days)

PairSecond ==
    \E loc \in Locations, days \in DaysFilters :
        /\ Fresh(Second)
        /\ task[First].kind = "search"
        /\ SearchStart(Second, task[First].query, loc, days)

PairOpen == \E h \in Handlers : FetchOpen(h)

PairRequestFirst == FetchRequest(First, PairAnswers)

PairRequestSecond ==
    /\ task[Second].pc = "request"
    /\ task[Second].idx <= Len(task[First].log)
    /\ FetchRequest(Second, {task[First].log[task[Second].idx].answer})

PairSleep == \E h \in Handlers : FetchSleep(h)

\* The first call's answers are kept until the second has used them all.
PairRespondFirst ==
    /\ task[Second].kind = "search"
    /\ task[Second].pc \in {"fetched", "done"}
    /\ SearchRespond(First)

PairRespondSecond == SearchRespond(Second)

NextPair ==
    \/ PairFirst
    \/ PairSecond
    \/ PairOpen
    \/ PairRequestFirst
    \/ PairRequestSecond
    \/ PairSleep
    \/ PairRespondFirst
    \/ PairRespondSecond

SpecPair == Init /\ [][NextPair]_vars

\* What the claim compares of a list of postings.
Postings(jobs) ==
    [i \in 1..Len(jobs) |->
        [title |-> jobs[i].job_title, link |-> jobs[i].job_link,
         company |-> jobs[i].company_name, keywords |-> jobs[i].keywords,
         skills |-> jobs[i].technical_skills]]

\* C15: of two searches with the same query and the same provider answers,
\* whatever their location and days_filter, the k-th requests are the
\* same, the fetchers return the same postings after the same number of
\* requests, and the bodies answered hold the same postings and the same
\* total_count.
LocationAndDaysIgnored ==
    LET a == task[First]
        b == task[Second]
    IN  (a.kind = "search" /\ b.kind = "search") =>
          /\ a.query = b.query
          /\ \A k \in 1..Min(Len(a.log), Len(b.log)) :
                /\ a.log[k].answer = b.log[k].answer
                /\ a.log[k].request = b.log[k].request
          /\ (a.pc = "fetched" /\ b.pc = "fetched") =>
                /\ Len(a.log) = Len(b.log)
                /\ Postings(a.jobs) = Postings(b.jobs)
          /\ (a.pc = "done" /\ b.pc = "done"
                /\ resp[First].status = HTTP_OK /\ resp[Second].status = HTTP_OK) =>
                /\ Postings(resp[First].search.jobs) = Postings(resp[Second].search.jobs)
                /\ resp[First].search.total_count = resp[Second].search.total_count
                /\ resp[First].search.search_query = resp[Second].search.search_query

\* C15 witness: two searches that differed in location and in days_filter
\* have both been answered, with relevant postings.
LocationAndDaysWitness ==
    /\ task[First].kind = "search" /\ task[First].pc = "done"
    /\ task[Second].kind = "search" /\ task[Second].pc = "done"
    /\ task[First].location # task[Second].location
    /\ task[First].days_filter # task[Second].days_filter
    /\ resp[First].status = HTTP_OK
    /\ resp[Second].status = HTTP_OK
    /\ resp[Second].search.total_count > 0

\* ------------------------------------------------------------------- claims
Elems(seq) == {seq[i] : i \in 1..Len(seq)}

\* Whether the daily task in t has filtered its fetched list.
Filtered(t) == IsDaily(t.kind) /\ t.result # NoResult

\* C1: every Search Result the pipeline produces has total_count equal to
\* the length of its jobs list: every document in the store, every result
\* a run has built, and every body POST /search-jobs has returned.
TotalCountIsLen ==
    /\ \A i \in 1..Len(store) : store[i].total_count = Len(store[i].jobs)
    /\ \A c \in Contexts : task[c].result.total_count = Len(task[c].result.jobs)
    /\ \A h \in Handlers : resp[h].search.total_count = Len(resp[h].search.jobs)

\* C1 witness: a run has stored a result whose filtered list is not empty
\* and is shorter than the fetched list.
TotalCountWitness ==
    /\ Len(store) = 1
    /\ store[1].total_count > 0
    /\ store[1].total_count < Len(task[H].jobs)

\* C2 (as claimed): every posting whose title contains "senior" carries
\* "Senior Risk Analyst" and "Risk Leadership" among at most 5 keywords.
SeniorTermsIncluded ==
    \A c \in Contexts : \A i \in 1..Len(task[c].jobs) :
        LET job == task[c].jobs[i]
        IN  Contains(lower(job.job_title), w_senior)
                => /\ Elems(SeniorKeywords) \subseteq Elems(job.keywords)
                   /\ Len(job.keywords) <= MaxKeywords

\* C3: the mailer never lets an exception out; it returns False whenever a
\* step raised and True only when every step completed.
MailerNeverRaises ==
    \A c \in Contexts :
        LET m == task[c].mail
        IN  /\ m.raised = None
            /\ task[c].raised = None
            /\ (m.ret => m.done = MailSteps)
            /\ ((m # NoMailCall /\ m.done # MailSteps) => ~m.ret)

\* C3 witness: the relay raised on login during a manually triggered run;
\* the mailer returned False and the run went on to its return.
MailerWitness ==
    /\ task[H].kind = "trigger"
    /\ task[H].pc = "return"
    /\ task[H].mail.done = <<"compose", "connect", "starttls">>
    /\ ~task[H].mail.ret
    /\ task[H].mail.raised = None

\* C7 (as claimed): a manually triggered run in which a step raised is
\* answered 500 with the exception text, and the success message is
\* returned only for a run without error.
ManualFailureSurfaced ==
    \A h \in Handlers :
        (task[h].kind = "trigger" /\ task[h].pc = "done")
            => IF task[h].logged # None
               THEN resp[h].status = HTTP_ERROR /\ resp[h].detail = task[h].logged
               ELSE resp[h].status = HTTP_OK

\* C9: filtering the filtered list again gives the same list, for the
\* filter of the daily task and for the filter of POST /search-jobs.
FilterIdempotent ==
    /\ \A c \in Contexts :
          Filtered(task[c]) =>
              relevant_jobs_daily(task[c].relevant) = task[c].relevant
    /\ \A h \in Handlers :
          relevant_jobs_search(resp[h].search.jobs) = resp[h].search.jobs

\* C9 witness: a daily task filtered a fetched list that mixes relevant and
\* irrelevant postings, and kept at least two.
FilterWitness ==
    /\ task[H].kind = "trigger"
    /\ task[H].pc = "insert"
    /\ Len(task[H].relevant) >= 2
    /\ Len(task[H].relevant) < Len(task[H].jobs)
    /\ ~IsRelevant(task[H].jobs[1])

\* C10 (as claimed): after the request of every template, whatever its
\* outcome, control is at the pause before the next request or the return.
PauseFollowsEveryRequest ==
    [][\A c \in Contexts :
          (task[c].pc = "request" /\ task'[c] # task[c])
              => task'[c].pc = "sleep"]_vars

\* The result blocks of answer r that yield a posting: among the first 10,
\* those with a title, a link element and an href.
GoodBlocks(r) ==
    SelectSeq(Take(r.blocks, MaxResultsPerQuery),
              LAMBDA b : b.has_h3 /\ b.has_a /\ b.href # None)

\* Title and link of the postings that the answers in a request log hold,
\* in log order: those of the good blocks of each answer that came with
\* status 200 and without exception, nothing for the other answers.
RECURSIVE FoundIn(_)
FoundIn(log) ==
    IF log = <<>> THEN <<>>
    ELSE LET r == log[Len(log)].answer
             good == IF ~r.raises /\ r.status = HTTP_OK THEN GoodBlocks(r) ELSE <<>>
         IN  FoundIn(SubSeq(log, 1, Len(log) - 1))
                 \o [i \in 1..Len(good) |-> [title |-> good[i].h3, link |-> good[i].href]]

TitlesAndLinks(jobs) ==
    [i \in 1..Len(jobs) |-> [title |-> jobs[i].job_title, link |-> jobs[i].job_link]]

\* C11: in a call of the fetcher the k-th request sent is the request of
\* template k, so that no template is requested twice or out of order; a
\* call that has left the loop has requested all the templates, whatever
\* the answers were; and the postings collected are, in request order and
\* with repetitions, those of the answers that succeeded, every block that
\* raised or lacked an element left out.
EachTemplateOnceNoRetry ==
    \A c \in Contexts :
        LET t == task[c]
        IN  /\ \A k \in 1..Len(t.log) :
                  t.log[k].request =
                      TemplateRequest(t.query, t.location, t.days_filter, k)
            /\ t.pc = "request" => Len(t.log) = t.idx - 1
            /\ t.pc = "sleep" => Len(t.log) = t.idx
            /\ t.pc = "fetched" => Len(t.log) = NumTemplates
            /\ Len(t.log) <= Len(search_queries(t.query, t.location, t.days_filter))
            /\ TitlesAndLinks(t.jobs) = FoundIn(t.log)

\* C11 witness: a call has returned after the first template raised, the
\* second was refused, the third held a block that raised between blocks
\* that did not, and two later templates held the same postings.
EachTemplateOnceWitness ==
    /\ task[H].pc = "fetched"
    /\ task[H].log[1].answer = R_exception
    /\ task[H].log[2].answer = R_refused
    /\ task[H].log[3].answer = R_mixed
    /\ task[H].log[4].answer = R_two
    /\ task[H].log[5].answer = R_two
    /\ task[H].log[6].answer = R_refused
    /\ Len(task[H].jobs) = 7
    /\ task[H].jobs[4] = task[H].jobs[6]

====
